---- MODULE Spec2Model ----
(***************************************************************************)
(* git-branch-picker (gp): the worktree lifecycle engine.                  *)
(*                                                                         *)
(* The model covers `gp clean` (clean_worktrees) and `gp w`                *)
(* (interactive_worktree_list) of src/src/worktree.rs together with the    *)
(* helpers of src/src/ui.rs they call (src/src/main.rs holds an earlier    *)
(* copy of the same functions).  The version-control backend               *)
(* (git2), the filesystem and the operator are the environment: the        *)
(* persistent part of a linked worktree is the record wt[w]; an answer the *)
(* backend may give either way (an I/O error, a prompt answer, the outcome *)
(* of a removal) is drawn with \E inside the action that makes the call.   *)
(***************************************************************************)
EXTENDS Integers, Sequences, FiniteSets, TLC

\* ------------------------------------------------------------------ bounds
\* Linked worktrees are named 1..MaxWt; the backend enumerates them in
\* ascending name order.
MaxWt == 2
\* Largest number of commits a local branch is ahead of its upstream.
MaxAhead == 2

\* Label of the primary working directory ("(main)" in the source).
\* The remote-tracking branches origin/1 .. origin/MaxRemote.
MaxRemote == 2

\* The seconds of the wall clock that can pass within one behaviour.
MaxTime == 1

\* The runs of the create journey within one behaviour.
MaxRuns == 2

MainWt == 0

WtNames == 1..MaxWt

VARIABLES
    wt,         \* WtNames -> state of the linked worktree (backend + filesystem)
    pc,         \* position of the running journey
    wt_names,   \* clean: the names repo.worktrees() returned
    fault,      \* per evaluated worktree, the backend call that failed
    to_remove,  \* clean: Vec<WtInfo>, the eligible partition
    skipped,    \* clean: Vec<(name, reason)>
    idx,        \* clean: position of the deletion loop in to_remove
    removed,    \* clean: counter of the deletion loop
    entries,    \* list: Vec<WorktreeEntry> on display
    selected,   \* list: the entry the operator picked
    dirty,      \* list: the verdict that chose the prompt text
    workdir,    \* repo.workdir() is Some: the repository is not bare
    pushed,     \* the worktree whose commits were pushed after a scan, or NoPush
    io,         \* what the journey printed, asked and did, in order
    result,     \* the journey's return value: "none", "ok", "err"
    origin,     \* create: the remote "origin" is configured
    primary_dirty, \* create: uncommitted changes that conflict with a checkout
    branches,   \* create: local branch name -> commit, NoCommit when absent
    head,       \* create: the branch the primary HEAD is on
    config,     \* create: branch name -> its branch.<name>.remote / .merge
    added,      \* create: names of the worktrees repo.worktree() made
    clock,      \* create: Local::now(), in seconds
    runs,       \* create: runs of the create journey so far
    freq,       \* create: what FrequencyStore::load returns, branch -> count
    req         \* create: the remote branch picked, the action, the new name

wtVars == <<wt, wt_names, fault, to_remove, skipped, idx, removed,
            entries, selected, dirty, workdir, pushed>>

provVars == <<origin, primary_dirty, branches, head, config, added, clock,
              runs, freq, req>>

vars == <<wtVars, provVars, pc, io, result>>

\* ------------------------------------------------------- the backend state
\* access: "ok"     the worktree loads and opens
\*         "noload" repo.find_worktree(name) fails (metadata unreadable)
\*         "noopen" Repository::open(path) fails, the directory exists
\*         "nodir"  the directory is gone, the metadata entry remains
\* dirty:  statuses (untracked included, ignored and unmodified excluded)
\*         is not empty
\* head:   "none" (HEAD unreadable), "detached", "branch"
\* upstream: the checked-out branch has a configured upstream
\* ahead:  commits reachable from the local tip and not from the upstream
Absent == [present |-> FALSE, access |-> "ok", dirty |-> FALSE,
           head |-> "none", upstream |-> FALSE, ahead |-> 0]

\* A worktree that cannot be opened has no readable status or HEAD; a
\* detached or unreadable HEAD has no upstream; no upstream, no ahead count.
WtStates ==
    { s \in [present : {TRUE}, access : {"ok", "noload", "noopen", "nodir"},
             dirty : BOOLEAN, head : {"none", "detached", "branch"},
             upstream : BOOLEAN, ahead : 0..MaxAhead] :
        /\ (s.access # "ok" => ~s.dirty /\ s.head = "none")
        /\ (s.head # "branch" => ~s.upstream)
        /\ (~s.upstream => s.ahead = 0) }

\* The backend calls of the evaluation that can fail on an opened worktree
\* whatever its state: statuses(), head.target(), find_branch(),
\* upstream.get().target(), graph_ahead_behind().  At most one is drawn per
\* evaluation ("none": every call answers).
Faults == {"none", "status", "target", "local", "uptarget", "graph"}

Linked == {w \in WtNames : wt[w].present}

\* The backend calls the scan makes on a worktree in state s when none of
\* them fails: those are the calls that can fail.  The loop leaves the
\* iteration at the first check that does not pass.
CallsMade(s) ==
    IF ~s.present \/ s.access # "ok" THEN {}
    ELSE IF s.dirty \/ s.head # "branch" THEN {"status"}
    ELSE IF ~s.upstream THEN {"status", "target", "local"}
    ELSE {"status", "target", "local", "uptarget", "graph"}

\* The set S of names as the sequence the backend enumerates.
RECURSIVE Enumerate(_)
Enumerate(S) ==
    IF S = {} THEN <<>>
    ELSE LET m == CHOOSE x \in S : \A y \in S : x <= y
         IN <<m>> \o Enumerate(S \ {m})

\* Variant of worktree_is_dirty: a status error counts as clean.
worktree_is_dirty_ErrClean(s, statusErr) ==
    IF statusErr THEN FALSE ELSE s.dirty

\* ------------------------------------------------------------------ ui.rs
\* worktree_is_dirty: Ok(s) => !s.is_empty(), Err(_) => true.
worktree_is_dirty(s, statusErr) ==
    IF statusErr THEN TRUE ELSE s.dirty

\* Variants of Evaluate.
\* `ahead > 1` for `ahead > 0`.
Evaluate_AheadOffByOne(s, f) ==
    IF s.access = "noload" THEN "load-failure"
    ELSE IF s.access # "ok" THEN "open-failure"
    ELSE IF worktree_is_dirty(s, f = "status") THEN "dirty-working-tree"
    ELSE IF s.head = "none" THEN "no-head"
    ELSE IF s.head # "branch" THEN "detached-head"
    ELSE IF f = "target" THEN "head-unresolvable"
    ELSE IF f = "local" THEN "no-local-branch"
    ELSE IF ~s.upstream THEN "no-upstream"
    ELSE IF f = "uptarget" THEN "upstream-unresolvable"
    ELSE IF f = "graph" THEN "graph-comparison-failure"
    ELSE IF s.ahead > 1 THEN "ahead-of-upstream"
    ELSE "eligible"

\* A failed comparison read as (0, 0), as unwrap_or_default would.
Evaluate_GraphErrIgnored(s, f) ==
    IF s.access = "noload" THEN "load-failure"
    ELSE IF s.access # "ok" THEN "open-failure"
    ELSE IF worktree_is_dirty(s, f = "status") THEN "dirty-working-tree"
    ELSE IF s.head = "none" THEN "no-head"
    ELSE IF s.head # "branch" THEN "detached-head"
    ELSE IF f = "target" THEN "head-unresolvable"
    ELSE IF f = "local" THEN "no-local-branch"
    ELSE IF ~s.upstream THEN "no-upstream"
    ELSE IF f = "uptarget" THEN "upstream-unresolvable"
    ELSE IF f # "graph" /\ s.ahead > 0 THEN "ahead-of-upstream"
    ELSE "eligible"

\* The HEAD checks moved before the status check.
Evaluate_HeadBeforeDirty(s, f) ==
    IF s.access = "noload" THEN "load-failure"
    ELSE IF s.access # "ok" THEN "open-failure"
    ELSE IF s.head = "none" THEN "no-head"
    ELSE IF s.head # "branch" THEN "detached-head"
    ELSE IF worktree_is_dirty(s, f = "status") THEN "dirty-working-tree"
    ELSE IF f = "target" THEN "head-unresolvable"
    ELSE IF f = "local" THEN "no-local-branch"
    ELSE IF ~s.upstream THEN "no-upstream"
    ELSE IF f = "uptarget" THEN "upstream-unresolvable"
    ELSE IF f = "graph" THEN "graph-comparison-failure"
    ELSE IF s.ahead > 0 THEN "ahead-of-upstream"
    ELSE "eligible"

\* The status check moved last.
Evaluate_DirtyCheckLast(s, f) ==
    IF s.access = "noload" THEN "load-failure"
    ELSE IF s.access # "ok" THEN "open-failure"
    ELSE IF s.head = "none" THEN "no-head"
    ELSE IF s.head # "branch" THEN "detached-head"
    ELSE IF f = "target" THEN "head-unresolvable"
    ELSE IF f = "local" THEN "no-local-branch"
    ELSE IF ~s.upstream THEN "no-upstream"
    ELSE IF f = "uptarget" THEN "upstream-unresolvable"
    ELSE IF f = "graph" THEN "graph-comparison-failure"
    ELSE IF s.ahead > 0 THEN "ahead-of-upstream"
    ELSE IF worktree_is_dirty(s, f = "status") THEN "dirty-working-tree"
    ELSE "eligible"

\* The is_branch() test left out: a detached HEAD goes on as a branch
\* named "HEAD", which is not found.
Evaluate_NoDetachedCheck(s, f) ==
    IF s.access = "noload" THEN "load-failure"
    ELSE IF s.access # "ok" THEN "open-failure"
    ELSE IF worktree_is_dirty(s, f = "status") THEN "dirty-working-tree"
    ELSE IF s.head = "none" THEN "no-head"
    ELSE IF f = "target" THEN "head-unresolvable"
    ELSE IF f = "local" \/ s.head # "branch" THEN "no-local-branch"
    ELSE IF ~s.upstream THEN "no-upstream"
    ELSE IF f = "uptarget" THEN "upstream-unresolvable"
    ELSE IF f = "graph" THEN "graph-comparison-failure"
    ELSE IF s.ahead > 0 THEN "ahead-of-upstream"
    ELSE "eligible"

\* ----------------------------------------------------- clean: the scan
\* One pass of the scan loop on a worktree in state s, f being the backend
\* call that fails: "eligible" (pushed to to_remove) or the reason pushed
\* to skipped.
Evaluate(s, f) ==
    IF s.access = "noload" THEN "load-failure"
    ELSE IF s.access # "ok" THEN "open-failure"
    ELSE IF worktree_is_dirty(s, f = "status") THEN "dirty-working-tree"
    ELSE IF s.head = "none" THEN "no-head"
    ELSE IF s.head # "branch" THEN "detached-head"
    ELSE IF f = "target" THEN "head-unresolvable"
    ELSE IF f = "local" THEN "no-local-branch"
    ELSE IF ~s.upstream THEN "no-upstream"
    ELSE IF f = "uptarget" THEN "upstream-unresolvable"
    ELSE IF f = "graph" THEN "graph-comparison-failure"
    ELSE IF s.ahead > 0 THEN "ahead-of-upstream"
    ELSE "eligible"

\* Variant of ScanRemove: the `continue` after the dirty push is missing,
\* so a dirty worktree also reaches to_remove.
RECURSIVE ScanRemove_NoContinue(_, _, _)
ScanRemove_NoContinue(names, st, flt) ==
    IF names = <<>> THEN <<>>
    ELSE LET n == Head(names)
             rest == ScanRemove_NoContinue(Tail(names), st, flt)
         IN IF Evaluate(st[n], flt[n]) \in {"eligible", "dirty-working-tree"}
            THEN <<n>> \o rest ELSE rest

\* Variant of ScanRemove: a worktree keeps the verdict an earlier scan gave
\* it, so one that was skipped then is not evaluated again.
RECURSIVE ScanRemove_Cached(_, _, _)
ScanRemove_Cached(names, st, flt) ==
    IF names = <<>> THEN <<>>
    ELSE LET n == Head(names)
             rest == ScanRemove_Cached(Tail(names), st, flt)
         IN IF Evaluate(st[n], flt[n]) = "eligible" /\ n # pushed
            THEN <<n>> \o rest ELSE rest

\* The two partitions the loop builds over names, in order.
RECURSIVE ScanRemove(_, _, _)
ScanRemove(names, st, flt) ==
    IF names = <<>> THEN <<>>
    ELSE LET n == Head(names)
             rest == ScanRemove(Tail(names), st, flt)
         IN IF Evaluate(st[n], flt[n]) = "eligible" THEN <<n>> \o rest ELSE rest

RECURSIVE ScanSkipped(_, _, _)
ScanSkipped(names, st, flt) ==
    IF names = <<>> THEN <<>>
    ELSE LET n == Head(names)
             v == Evaluate(st[n], flt[n])
             rest == ScanSkipped(Tail(names), st, flt)
         IN IF v = "eligible" THEN rest ELSE <<<<n, v>>>> \o rest


\* ------------------------------------------------------------ filesystem
\* fs::remove_dir_all(path) succeeded: the directory is gone, the metadata
\* entry stays until it is pruned.
DirGone(s) ==
    IF s.access = "noload" THEN s
    ELSE [Absent EXCEPT !.present = TRUE, !.access = "nodir"]

\* fs::remove_dir_all(path) failed: nothing was removed, or part of the
\* tree was (tracked files are missing, or the .git link is).
RemoveFailed(s) ==
    {s} \cup (IF s.access = "ok"
              THEN {[s EXCEPT !.dirty = TRUE],
                    [Absent EXCEPT !.present = TRUE, !.access = "noopen"]}
              ELSE {})

\* Outcomes of fs::remove_dir_all: an absent directory cannot be removed.
RemoveOutcomes(s) ==
    IF s.access = "nodir" THEN {FALSE} ELSE BOOLEAN

\* Outcomes of repo.find_worktree(name).and_then(|wt| wt.prune(None)):
\* an entry that does not load cannot be pruned; a loaded one may still
\* fail to prune (locked).
PruneOutcomes(s) ==
    IF s.access = "noload" THEN {FALSE} ELSE BOOLEAN

Ev(e, k) == [ev |-> e, n |-> k]

\* Variant of CleanDeleteOne: the `continue` after a failed removal is
\* missing, the prune is attempted all the same.
CleanDeleteOne_PruneAlways(st, w, rmOk, pruneOk, after) ==
    [wt |-> [st EXCEPT ![w] = IF pruneOk THEN Absent
                              ELSE IF rmOk THEN DirGone(st[w]) ELSE after],
     io |-> <<Ev(IF rmOk THEN "rmdir_ok" ELSE "rmdir_fail", w),
              Ev(IF pruneOk THEN "prune_ok" ELSE "prune_fail", w),
              Ev("deleted", w)>>,
     ok |-> TRUE]

\* The body of the deletion loop of clean_worktrees on worktree w: the
\* directory first; `continue` when that fails; otherwise the prune, whose
\* failure is only a warning.  rmOk and pruneOk are the outcomes of the two
\* calls, after the state a failed removal leaves.  The result is the new
\* backend state, the events, and whether `removed` is incremented.
CleanDeleteOne(st, w, rmOk, pruneOk, after) ==
    IF ~rmOk
    THEN [wt |-> [st EXCEPT ![w] = after],
          io |-> <<Ev("rmdir_fail", w)>>,
          ok |-> FALSE]
    ELSE [wt |-> [st EXCEPT ![w] = IF pruneOk THEN Absent ELSE DirGone(st[w])],
          io |-> <<Ev("rmdir_ok", w),
                   Ev(IF pruneOk THEN "prune_ok" ELSE "prune_fail", w),
                   Ev("deleted", w)>>,
          ok |-> TRUE]

\* Variant of ListDeleteOne: the prune is attempted whether or not the
\* directory could be removed.
ListDeleteOne_PruneAlways(st, w, rmOk, pruneOk, after) ==
    [wt |-> [st EXCEPT ![w] = IF pruneOk THEN Absent
                              ELSE IF rmOk THEN DirGone(st[w]) ELSE after],
     io |-> <<Ev(IF rmOk THEN "rmdir_ok" ELSE "rmdir_fail", w),
              Ev(IF pruneOk THEN "prune_ok" ELSE "prune_fail", w),
              Ev("deleted", w)>>]

\* The `if confirm { ... }` block of interactive_worktree_list.
ListDeleteOne(st, w, rmOk, pruneOk, after) ==
    IF ~rmOk
    THEN [wt |-> [st EXCEPT ![w] = after],
          io |-> <<Ev("rmdir_fail", w)>>]
    ELSE [wt |-> [st EXCEPT ![w] = IF pruneOk THEN Absent ELSE DirGone(st[w])],
          io |-> <<Ev("rmdir_ok", w),
                   Ev(IF pruneOk THEN "prune_ok" ELSE "prune_fail", w),
                   Ev("deleted", w)>>]

\* ------------------------------------------------------------ inventory
NoEntry == [name |-> MainWt, branch |-> "", is_main |-> FALSE]

\* The branch column of a linked worktree.
BranchLabel(s) ==
    IF s.access # "ok" THEN "(unknown)"
    ELSE IF s.head = "none" THEN "(detached)"
    ELSE IF s.head = "detached" THEN "HEAD"
    ELSE "(branch)"

RECURSIVE LinkedEntries(_, _)
LinkedEntries(names, st) ==
    IF names = <<>> THEN <<>>
    ELSE LET n == Head(names)
             rest == LinkedEntries(Tail(names), st)
         IN IF st[n].access = "noload" THEN rest
            ELSE <<[name |-> n, branch |-> BranchLabel(st[n]),
                    is_main |-> FALSE]>> \o rest

\* Variant of gather_worktrees: the primary entry is pushed after the loop.
gather_worktrees_MainLast(st, wd) ==
    LinkedEntries(Enumerate({w \in WtNames : st[w].present}), st)
    \o (IF wd THEN <<[name |-> MainWt, branch |-> "(branch)", is_main |-> TRUE]>>
        ELSE <<>>)

\* Variant of gather_worktrees: the vector of the previous query is not
\* cleared, the records found are pushed after the ones on display.
gather_worktrees_Accumulates(st, wd) ==
    entries
    \o (IF wd THEN <<[name |-> MainWt, branch |-> "(branch)", is_main |-> TRUE]>>
        ELSE <<>>)
    \o LinkedEntries(Enumerate({w \in WtNames : st[w].present}), st)

\* gather_worktrees: the primary working directory when the repository has
\* one (wd), then the linked ones; an entry that does not load is left out.
gather_worktrees(st, wd) ==
    (IF wd THEN <<[name |-> MainWt, branch |-> "(branch)", is_main |-> TRUE]>>
     ELSE <<>>)
    \o LinkedEntries(Enumerate({w \in WtNames : st[w].present}), st)

\* ------------------------------------------------------------------ Init
NoFault == [w \in WtNames |-> "none"]

\* No worktree had its commits pushed between two runs.
NoPush == 0

\* The journeys gp w and gp clean start idle, before any worktree was
\* scanned or listed.
WtIdle ==
    /\ wt_names = <<>>
    /\ fault = NoFault
    /\ to_remove = <<>>
    /\ skipped = <<>>
    /\ idx = 0
    /\ removed = 0
    /\ entries = <<>>
    /\ selected = NoEntry
    /\ dirty = FALSE
    /\ pushed = NoPush

\* ------------------------------------------------------- provisioning
RemoteBranches == 1..MaxRemote

\* Commits: the tip of origin/rb is called rb; the branch the repository
\* starts on is at InitialCommit; NoCommit stands for "no such branch".
NoCommit == 0

RemoteTip(rb) == rb

InitialCommit == MaxRemote + 1

\* Local branch names: the one the primary HEAD starts on, and the names
\* format!("{}-{}", branch_name, timestamp) can give.
Initial == <<0, 0>>

NewName(rb, t) == <<rb, t>>

LocalNames == {Initial} \cup (RemoteBranches \X (0..MaxTime))

NoTracking == [remote |-> FALSE, merge |-> 0]

NoReq == [op |-> "none", rb |-> 0, name |-> Initial]

\* The backend calls of create_and_checkout and of create_worktree, in the
\* order of the source.
CheckoutSteps ==
    <<"find_ref", "peel", "branch", "revparse", "checkout", "set_head",
      "config", "set_remote", "set_merge">>

WorktreeSteps ==
    <<"find_ref", "peel", "find_commit", "branch", "find_branch", "worktree",
      "config", "set_remote", "set_merge">>

Pos(steps, x) == CHOOSE i \in 1..Len(steps) : steps[i] = x

\* The call at which the function returns Err: the first of the drawn
\* failure (fail, 0 for none) and the failures the state forces (forced, a
\* set of step names); 0 when every call succeeds.
StopAt(steps, fail, forced) ==
    LET at == {Pos(steps, x) : x \in forced} \cup (IF fail = 0 THEN {} ELSE {fail})
    IN IF at = {} THEN 0 ELSE CHOOSE i \in at : \A j \in at : i <= j

\* The variables a provisioning writes, as one value.
Git == [branches |-> branches, head |-> head, config |-> config,
        added |-> added]

\* Variant of create_and_checkout: the branch is created at the commit of
\* HEAD, not at the commit of the remote ref.
create_and_checkout_AtHead(g, blocked, rb, name, fail) ==
    LET forced == (IF g.branches[name] # NoCommit THEN {"branch"} ELSE {})
                  \cup (IF blocked THEN {"checkout"} ELSE {})
        stop == StopAt(CheckoutSteps, fail, forced)
        done(x) == stop = 0 \/ Pos(CheckoutSteps, x) < stop
    IN [git |->
          [branches |-> IF done("branch")
                        THEN [g.branches EXCEPT ![name] = g.branches[g.head]]
                        ELSE g.branches,
           head |-> IF done("set_head") THEN name ELSE g.head,
           config |-> [g.config EXCEPT ![name] =
                         [remote |-> @.remote \/ done("set_remote"),
                          merge |-> IF done("set_merge") THEN rb ELSE @.merge]],
           added |-> g.added],
        log |-> SubSeq(CheckoutSteps, 1,
                       IF stop = 0 THEN Len(CheckoutSteps) ELSE stop - 1),
        ok |-> stop = 0]

\* Variant of create_and_checkout: the two configuration writes are missing.
create_and_checkout_NoTracking(g, blocked, rb, name, fail) ==
    LET forced == (IF g.branches[name] # NoCommit THEN {"branch"} ELSE {})
                  \cup (IF blocked THEN {"checkout"} ELSE {})
        stop == StopAt(CheckoutSteps, fail, forced)
        done(x) == stop = 0 \/ Pos(CheckoutSteps, x) < stop
    IN [git |->
          [branches |-> IF done("branch")
                        THEN [g.branches EXCEPT ![name] = RemoteTip(rb)]
                        ELSE g.branches,
           head |-> IF done("set_head") THEN name ELSE g.head,
           config |-> g.config,
           added |-> g.added],
        log |-> SubSeq(CheckoutSteps, 1,
                       IF stop = 0 THEN Len(CheckoutSteps) ELSE stop - 1),
        ok |-> stop = 0]

\* create_and_checkout(repo, remote_branch, new_name) on the repository
\* state g.  repo.branch(.., false) fails when the name exists;
\* checkout_tree (safe strategy) fails when uncommitted changes conflict
\* (blocked); any call can fail for other reasons (fail).  Every call
\* before the failing one has had its effect, nothing is rolled back.
create_and_checkout(g, blocked, rb, name, fail) ==
    LET forced == (IF g.branches[name] # NoCommit THEN {"branch"} ELSE {})
                  \cup (IF blocked THEN {"checkout"} ELSE {})
        stop == StopAt(CheckoutSteps, fail, forced)
        done(x) == stop = 0 \/ Pos(CheckoutSteps, x) < stop
    IN [git |->
          [branches |-> IF done("branch")
                        THEN [g.branches EXCEPT ![name] = RemoteTip(rb)]
                        ELSE g.branches,
           head |-> IF done("set_head") THEN name ELSE g.head,
           config |-> [g.config EXCEPT ![name] =
                         [remote |-> @.remote \/ done("set_remote"),
                          merge |-> IF done("set_merge") THEN rb ELSE @.merge]],
           added |-> g.added],
        log |-> SubSeq(CheckoutSteps, 1,
                       IF stop = 0 THEN Len(CheckoutSteps) ELSE stop - 1),
        ok |-> stop = 0]

\* Variant of create_worktree: the tracking is written before the worktree
\* is made.
create_worktree_TrackingFirst(g, rb, name, fail) ==
    LET forced == IF g.branches[name] # NoCommit THEN {"branch"} ELSE {}
        stop == StopAt(WorktreeSteps, fail, forced)
        done(x) == stop = 0 \/ Pos(WorktreeSteps, x) < stop
    IN [git |->
          [branches |-> IF done("branch")
                        THEN [g.branches EXCEPT ![name] = RemoteTip(rb)]
                        ELSE g.branches,
           head |-> g.head,
           config |-> [g.config EXCEPT ![name] =
                         [remote |-> @.remote \/ done("find_branch"),
                          merge |-> IF done("find_branch") THEN rb
                                    ELSE @.merge]],
           added |-> IF done("worktree") THEN g.added \cup {name}
                     ELSE g.added],
        log |-> SubSeq(WorktreeSteps, 1,
                       IF stop = 0 THEN Len(WorktreeSteps) ELSE stop - 1),
        ok |-> stop = 0]

\* Variant of create_worktree: the new worktree's branch also becomes the
\* branch of the primary HEAD.
create_worktree_MovesHead(g, rb, name, fail) ==
    LET forced == IF g.branches[name] # NoCommit THEN {"branch"} ELSE {}
        stop == StopAt(WorktreeSteps, fail, forced)
        done(x) == stop = 0 \/ Pos(WorktreeSteps, x) < stop
    IN [git |->
          [branches |-> IF done("branch")
                        THEN [g.branches EXCEPT ![name] = RemoteTip(rb)]
                        ELSE g.branches,
           head |-> IF done("worktree") THEN name ELSE g.head,
           config |-> [g.config EXCEPT ![name] =
                         [remote |-> @.remote \/ done("set_remote"),
                          merge |-> IF done("set_merge") THEN rb ELSE @.merge]],
           added |-> IF done("worktree") THEN g.added \cup {name}
                     ELSE g.added],
        log |-> SubSeq(WorktreeSteps, 1,
                       IF stop = 0 THEN Len(WorktreeSteps) ELSE stop - 1),
        ok |-> stop = 0]

\* create_worktree(repo, remote_branch, new_name, worktree_path).
create_worktree(g, rb, name, fail) ==
    LET forced == IF g.branches[name] # NoCommit THEN {"branch"} ELSE {}
        stop == StopAt(WorktreeSteps, fail, forced)
        done(x) == stop = 0 \/ Pos(WorktreeSteps, x) < stop
    IN [git |->
          [branches |-> IF done("branch")
                        THEN [g.branches EXCEPT ![name] = RemoteTip(rb)]
                        ELSE g.branches,
           head |-> g.head,
           config |-> [g.config EXCEPT ![name] =
                         [remote |-> @.remote \/ done("set_remote"),
                          merge |-> IF done("set_merge") THEN rb ELSE @.merge]],
           added |-> IF done("worktree") THEN g.added \cup {name}
                     ELSE g.added],
        log |-> SubSeq(WorktreeSteps, 1,
                       IF stop = 0 THEN Len(WorktreeSteps) ELSE stop - 1),
        ok |-> stop = 0]

\* The events of the calls that returned Ok.
StepEvents(log, rb) == [i \in 1..Len(log) |-> Ev(log[i], rb)]

\* FrequencyStore::default(): no branch was ever picked.  A file that is
\* missing or does not parse loads as this.
NoCounts == [rb \in RemoteBranches |-> 0]

\* Variant of increment: the entry is counted twice.
increment_Twice(counts, rb) == [counts EXCEPT ![rb] = @ + 2]

\* FrequencyStore::increment.
increment(counts, rb) == [counts EXCEPT ![rb] = @ + 1]

\* The repository as cloned: on its initial branch, nothing provisioned.
ProvIdle ==
    /\ branches = [n \in LocalNames |->
                     IF n = Initial THEN InitialCommit ELSE NoCommit]
    /\ head = Initial
    /\ config = [n \in LocalNames |-> NoTracking]
    /\ added = {}
    /\ clock = 0
    /\ runs = 0
    /\ freq = NoCounts
    /\ req = NoReq

Init ==
    /\ wt \in [WtNames -> WtStates \cup {Absent}]
    /\ workdir = TRUE
    /\ ProvIdle
    /\ origin = TRUE
    /\ primary_dirty = FALSE
    /\ pc = "idle"
    /\ WtIdle
    /\ io = <<>>
    /\ result = "none"

Finish(r, out) ==
    /\ pc' = "done"
    /\ result' = r
    /\ io' = out

\* ------------------------------------------------------- gp clean
\* clean_worktrees up to the confirmation prompt: enumerate, scan, present
\* both partitions, ask.
StartClean ==
    /\ pc = "idle"
    /\ UNCHANGED <<workdir, pushed, provVars>>
    /\ UNCHANGED <<wt, idx, removed, entries, selected, dirty>>
    /\ \E enumOk \in BOOLEAN :
         IF ~enumOk
         THEN /\ Finish("err", <<Ev("enum_fail", 0)>>)
              /\ UNCHANGED <<wt_names, fault, to_remove, skipped>>
         ELSE IF Linked = {}
         THEN /\ Finish("ok", <<Ev("no_worktrees", 0)>>)
              /\ UNCHANGED <<wt_names, fault, to_remove, skipped>>
         ELSE \E flt \in [WtNames -> Faults] :
              /\ \A w \in WtNames : flt[w] \in {"none"} \cup CallsMade(wt[w])
              /\ LET names == Enumerate(Linked)
                     tr == ScanRemove(names, wt, flt)
                     sk == ScanSkipped(names, wt, flt)
                     shown == <<Ev("checking", Len(names))>> \o
                              (IF sk # <<>> THEN <<Ev("show_skipped", Len(sk))>>
                               ELSE <<>>)
                 IN /\ wt_names' = names
                    /\ fault' = flt
                    /\ to_remove' = tr
                    /\ skipped' = sk
                    /\ IF tr = <<>>
                       THEN Finish("ok", shown \o <<Ev("nothing_to_clean", 0)>>)
                       ELSE /\ pc' = "clean_confirm"
                            /\ result' = result
                            /\ io' = shown \o <<Ev("show_eligible", Len(tr)),
                                                Ev("ask_confirm", Len(tr))>>

\* Variant of CleanConfirm: a cancelled prompt is taken as the default
\* answer and the default is yes.
CleanConfirm_CancelIsYes ==
    /\ pc = "clean_confirm"
    /\ UNCHANGED <<workdir, pushed, provVars>>
    /\ UNCHANGED <<wt, wt_names, fault, to_remove, skipped, entries,
                   selected, dirty>>
    /\ \E answer \in {"yes", "no", "cancel", "error"} :
         CASE answer = "error" ->
                /\ Finish("err", io)
                /\ UNCHANGED <<idx, removed>>
           [] answer = "no" ->
                /\ Finish("ok", io \o <<Ev("answer_no", 0), Ev("cancelled", 0)>>)
                /\ UNCHANGED <<idx, removed>>
           [] answer = "yes" ->
                /\ pc' = "clean_delete"
                /\ idx' = 1
                /\ removed' = 0
                /\ io' = io \o <<Ev("answer_yes", 0)>>
                /\ result' = result
           [] answer = "cancel" ->
                /\ pc' = "clean_delete"
                /\ idx' = 1
                /\ removed' = 0
                /\ io' = io \o <<Ev("answer_no", 0)>>
                /\ result' = result

\* The operator answers the batch confirmation.
CleanConfirm ==
    /\ pc = "clean_confirm"
    /\ UNCHANGED <<workdir, pushed, provVars>>
    /\ UNCHANGED <<wt, wt_names, fault, to_remove, skipped, entries,
                   selected, dirty>>
    /\ \E answer \in {"yes", "no", "cancel", "error"} :
         CASE answer = "error" ->
                /\ Finish("err", io)
                /\ UNCHANGED <<idx, removed>>
           [] answer \in {"no", "cancel"} ->
                /\ Finish("ok", io \o <<Ev("answer_no", 0), Ev("cancelled", 0)>>)
                /\ UNCHANGED <<idx, removed>>
           [] answer = "yes" ->
                /\ pc' = "clean_delete"
                /\ idx' = 1
                /\ removed' = 0
                /\ io' = io \o <<Ev("answer_yes", 0)>>
                /\ result' = result

\* Variant of CleanDelete: `break` for `continue` after a failed removal.
CleanDelete_BreakOnFail ==
    /\ pc = "clean_delete"
    /\ UNCHANGED <<workdir, pushed, provVars>>
    /\ idx <= Len(to_remove)
    /\ UNCHANGED <<wt_names, fault, to_remove, skipped, entries, selected,
                   dirty, pc, result>>
    /\ LET w == to_remove[idx]
       IN \E rmOk \in RemoveOutcomes(wt[w]), pruneOk \in PruneOutcomes(wt[w]),
             after \in RemoveFailed(wt[w]) :
            LET d == CleanDeleteOne(wt, w, rmOk, pruneOk, after)
            IN /\ wt' = d.wt
               /\ io' = io \o d.io
               /\ removed' = IF d.ok THEN removed + 1 ELSE removed
               /\ idx' = IF d.ok THEN idx + 1 ELSE Len(to_remove) + 1

\* One pass of the deletion loop.
CleanDelete ==
    /\ pc = "clean_delete"
    /\ UNCHANGED <<workdir, pushed, provVars>>
    /\ idx <= Len(to_remove)
    /\ UNCHANGED <<wt_names, fault, to_remove, skipped, entries, selected,
                   dirty, pc, result>>
    /\ LET w == to_remove[idx]
       IN \E rmOk \in RemoveOutcomes(wt[w]), pruneOk \in PruneOutcomes(wt[w]),
             after \in RemoveFailed(wt[w]) :
            LET d == CleanDeleteOne(wt, w, rmOk, pruneOk, after)
            IN /\ wt' = d.wt
               /\ io' = io \o d.io
               /\ removed' = IF d.ok THEN removed + 1 ELSE removed
               /\ idx' = idx + 1

\* The loop is over: the count is reported.
CleanFinish ==
    /\ pc = "clean_delete"
    /\ UNCHANGED <<workdir, pushed, provVars>>
    /\ idx > Len(to_remove)
    /\ UNCHANGED <<wt, wt_names, fault, to_remove, skipped, idx, removed,
                   entries, selected, dirty>>
    /\ Finish("ok", io \o <<Ev("count", removed)>>)


\* ------------------------------------------------------- gp w
\* Variant of StartList: an enumeration that fails counts as an empty one.
StartList_EnumFailIsEmpty ==
    /\ pc = "idle"
    /\ UNCHANGED <<workdir, pushed, provVars>>
    /\ UNCHANGED <<wt, wt_names, fault, to_remove, skipped, idx, removed,
                   selected, dirty>>
    /\ \E enumOk \in BOOLEAN :
         /\ IF ~enumOk
            THEN /\ Finish("ok", <<Ev("enum_fail", 0), Ev("no_worktrees", 0)>>)
                 /\ UNCHANGED entries
            ELSE LET found == gather_worktrees(wt, workdir)
                 IN /\ entries' = found
                    /\ IF found = <<>>
                       THEN Finish("ok", <<Ev("no_worktrees", 0)>>)
                       ELSE /\ pc' = "list"
                            /\ io' = <<>>
                            /\ result' = result

\* interactive_worktree_list: the first inventory, then the list prompt.
StartList ==
    /\ pc = "idle"
    /\ UNCHANGED <<workdir, pushed, provVars>>
    /\ UNCHANGED <<wt, wt_names, fault, to_remove, skipped, idx, removed,
                   selected, dirty>>
    /\ \E enumOk \in BOOLEAN :
         /\ IF ~enumOk
            THEN /\ Finish("err", <<Ev("enum_fail", 0)>>)
                 /\ UNCHANGED entries
            ELSE LET found == gather_worktrees(wt, workdir)
                 IN /\ entries' = found
                    /\ IF found = <<>>
                       THEN Finish("ok", <<Ev("no_worktrees", 0)>>)
                       ELSE /\ pc' = "list"
                            /\ io' = <<>>
                            /\ result' = result

\* Select::new(...).prompt(): an item, Esc / Ctrl-C, or a prompt error.
ListSelect ==
    /\ pc = "list"
    /\ UNCHANGED <<workdir, pushed, provVars>>
    /\ UNCHANGED <<wt, wt_names, to_remove, skipped, idx, removed, entries>>
    /\ fault' = NoFault
    /\ dirty' = FALSE
    /\ \/ \E i \in 1..Len(entries) :
            /\ selected' = entries[i]
            /\ pc' = "action"
            /\ io' = <<Ev("selected", entries[i].name)>>
            /\ result' = result
       \/ /\ Finish("ok", <<>>)
          /\ UNCHANGED selected
       \/ /\ Finish("err", <<>>)
          /\ UNCHANGED selected

\* Variant of WtActions: the delete key is accepted on every entry.
WtActions_DeleteForMain(is_main) ==
    {"Cd", "Delete", "Back", "Cancel"}

\* read_worktree_action(is_main): the keys it accepts.
WtActions(is_main) ==
    IF is_main THEN {"Cd", "Back", "Cancel"}
    ELSE {"Cd", "Delete", "Back", "Cancel"}

\* Variant of ListAction: the deletion of a worktree that is dirty or does
\* not open is refused without a prompt.
ListAction_DirtyNotOffered ==
    /\ pc = "action"
    /\ UNCHANGED <<workdir, pushed, provVars>>
    /\ UNCHANGED <<wt, wt_names, to_remove, skipped, idx, removed, selected>>
    /\ \/ \* read_worktree_action fails (terminal I/O error)
          /\ Finish("err", io)
          /\ UNCHANGED <<entries, dirty, fault>>
       \/ \E action \in WtActions(selected.is_main) :
            CASE action = "Cd" ->
                   \E shellOk \in BOOLEAN :
                     /\ Finish(IF shellOk THEN "ok" ELSE "err",
                               io \o <<Ev("spawn_shell", selected.name)>>)
                     /\ UNCHANGED <<entries, dirty, fault>>
              [] action = "Delete" ->
                   \E statusErr \in BOOLEAN :
                     LET s == wt[selected.name]
                         d == IF s.access = "ok"
                              THEN worktree_is_dirty(s, statusErr)
                              ELSE TRUE
                     IN /\ s.access # "ok" => ~statusErr
                        /\ fault' = [NoFault EXCEPT ![selected.name] =
                                        IF statusErr THEN "status" ELSE "none"]
                        /\ dirty' = d
                        /\ pc' = IF d THEN "list" ELSE "confirm_delete"
                        /\ io' = io \o <<Ev(IF d THEN "refused"
                                            ELSE "ask_delete", selected.name)>>
                        /\ result' = result
                        /\ UNCHANGED entries
              [] action = "Back" ->
                   \E enumOk \in BOOLEAN :
                     /\ UNCHANGED <<dirty, fault>>
                     /\ IF enumOk
                        THEN /\ entries' = gather_worktrees(wt, workdir)
                             /\ pc' = "list"
                             /\ io' = io
                             /\ result' = result
                        ELSE /\ Finish("err", io \o <<Ev("enum_fail", 0)>>)
                             /\ UNCHANGED entries
              [] action = "Cancel" ->
                   /\ Finish("ok", io)
                   /\ UNCHANGED <<entries, dirty, fault>>

\* Variant of ListAction: after the spawned shell ends the list is shown
\* again.
ListAction_CdReturns ==
    /\ pc = "action"
    /\ UNCHANGED <<workdir, pushed, provVars>>
    /\ UNCHANGED <<wt, wt_names, to_remove, skipped, idx, removed, selected>>
    /\ \/ \* read_worktree_action fails (terminal I/O error)
          /\ Finish("err", io)
          /\ UNCHANGED <<entries, dirty, fault>>
       \/ \E action \in WtActions(selected.is_main) :
            CASE action = "Cd" ->
                   \E shellOk \in BOOLEAN :
                     /\ IF shellOk
                        THEN /\ pc' = "list"
                             /\ io' = io \o <<Ev("spawn_shell", selected.name)>>
                             /\ result' = result
                        ELSE Finish("err",
                                    io \o <<Ev("spawn_shell", selected.name)>>)
                     /\ UNCHANGED <<entries, dirty, fault>>
              [] action = "Delete" ->
                   \E statusErr \in BOOLEAN :
                     LET s == wt[selected.name]
                         d == IF s.access = "ok"
                              THEN worktree_is_dirty(s, statusErr)
                              ELSE TRUE
                     IN /\ s.access # "ok" => ~statusErr
                        /\ fault' = [NoFault EXCEPT ![selected.name] =
                                        IF statusErr THEN "status" ELSE "none"]
                        /\ dirty' = d
                        /\ pc' = "confirm_delete"
                        /\ io' = io \o <<Ev(IF d THEN "ask_delete_warn"
                                            ELSE "ask_delete", selected.name)>>
                        /\ result' = result
                        /\ UNCHANGED entries
              [] action = "Back" ->
                   \E enumOk \in BOOLEAN :
                     /\ UNCHANGED <<dirty, fault>>
                     /\ IF enumOk
                        THEN /\ entries' = gather_worktrees(wt, workdir)
                             /\ pc' = "list"
                             /\ io' = io
                             /\ result' = result
                        ELSE /\ Finish("err", io \o <<Ev("enum_fail", 0)>>)
                             /\ UNCHANGED entries
              [] action = "Cancel" ->
                   /\ Finish("ok", io)
                   /\ UNCHANGED <<entries, dirty, fault>>

\* The branch of `match action` the key leads to, up to the next prompt.
ListAction ==
    /\ pc = "action"
    /\ UNCHANGED <<workdir, pushed, provVars>>
    /\ UNCHANGED <<wt, wt_names, to_remove, skipped, idx, removed, selected>>
    /\ \/ \* read_worktree_action fails (terminal I/O error)
          /\ Finish("err", io)
          /\ UNCHANGED <<entries, dirty, fault>>
       \/ \E action \in WtActions(selected.is_main) :
            CASE action = "Cd" ->
                   \E shellOk \in BOOLEAN :
                     /\ Finish(IF shellOk THEN "ok" ELSE "err",
                               io \o <<Ev("spawn_shell", selected.name)>>)
                     /\ UNCHANGED <<entries, dirty, fault>>
              [] action = "Delete" ->
                   \E statusErr \in BOOLEAN :
                     LET s == wt[selected.name]
                         d == IF s.access = "ok"
                              THEN worktree_is_dirty(s, statusErr)
                              ELSE TRUE
                     IN /\ s.access # "ok" => ~statusErr
                        /\ fault' = [NoFault EXCEPT ![selected.name] =
                                        IF statusErr THEN "status" ELSE "none"]
                        /\ dirty' = d
                        /\ pc' = "confirm_delete"
                        /\ io' = io \o <<Ev(IF d THEN "ask_delete_warn"
                                            ELSE "ask_delete", selected.name)>>
                        /\ result' = result
                        /\ UNCHANGED entries
              [] action = "Back" ->
                   \E enumOk \in BOOLEAN :
                     /\ UNCHANGED <<dirty, fault>>
                     /\ IF enumOk
                        THEN /\ entries' = gather_worktrees(wt, workdir)
                             /\ pc' = "list"
                             /\ io' = io
                             /\ result' = result
                        ELSE /\ Finish("err", io \o <<Ev("enum_fail", 0)>>)
                             /\ UNCHANGED entries
              [] action = "Cancel" ->
                   /\ Finish("ok", io)
                   /\ UNCHANGED <<entries, dirty, fault>>

\* Variant of ListConfirm: after a removal that failed the list is shown
\* again from the records it already has.
ListConfirm_StaleAfterFailure ==
    /\ pc = "confirm_delete"
    /\ UNCHANGED <<workdir, pushed, provVars>>
    /\ UNCHANGED <<wt_names, fault, to_remove, skipped, idx, removed,
                   selected, dirty>>
    /\ \E answer \in {"yes", "no", "cancel", "error"} :
         IF answer = "error"
         THEN /\ Finish("err", io)
              /\ UNCHANGED <<wt, entries>>
         ELSE LET w == selected.name
                  run == answer = "yes"
              IN \E rmOk \in IF run THEN RemoveOutcomes(wt[w]) ELSE {FALSE},
                    pruneOk \in IF run THEN PruneOutcomes(wt[w]) ELSE {FALSE},
                    after \in IF run THEN RemoveFailed(wt[w]) ELSE {wt[w]},
                    enumOk \in BOOLEAN :
                   LET d == IF run
                            THEN ListDeleteOne(wt, w, rmOk, pruneOk, after)
                            ELSE [wt |-> wt, io |-> <<Ev("answer_no", w)>>]
                       out == io \o d.io
                   IN /\ wt' = d.wt
                      /\ IF ~enumOk
                         THEN /\ Finish("err", out \o <<Ev("enum_fail", 0)>>)
                              /\ UNCHANGED entries
                         ELSE LET found == IF run /\ ~rmOk THEN entries
                                           ELSE gather_worktrees(d.wt, workdir)
                              IN /\ entries' = found
                                 /\ IF found = <<>>
                                    THEN Finish("ok", out \o
                                                <<Ev("none_left", 0)>>)
                                    ELSE /\ pc' = "list"
                                         /\ io' = out
                                         /\ result' = result

\* Variant of ListConfirm: a failed prune is returned as the journey's error.
ListConfirm_PruneFatal ==
    /\ pc = "confirm_delete"
    /\ UNCHANGED <<workdir, pushed, provVars>>
    /\ UNCHANGED <<wt_names, fault, to_remove, skipped, idx, removed,
                   selected, dirty>>
    /\ \E answer \in {"yes", "no", "cancel", "error"} :
         IF answer = "error"
         THEN /\ Finish("err", io)
              /\ UNCHANGED <<wt, entries>>
         ELSE LET w == selected.name
                  run == answer = "yes"
              IN \E rmOk \in IF run THEN RemoveOutcomes(wt[w]) ELSE {FALSE},
                    pruneOk \in IF run THEN PruneOutcomes(wt[w]) ELSE {FALSE},
                    after \in IF run THEN RemoveFailed(wt[w]) ELSE {wt[w]},
                    enumOk \in BOOLEAN :
                   LET d == IF run
                            THEN ListDeleteOne(wt, w, rmOk, pruneOk, after)
                            ELSE [wt |-> wt, io |-> <<Ev("answer_no", w)>>]
                       out == io \o d.io
                   IN /\ wt' = d.wt
                      /\ IF answer = "yes" /\ rmOk /\ ~pruneOk
                         THEN /\ Finish("err", out)
                              /\ UNCHANGED entries
                         ELSE IF ~enumOk
                         THEN /\ Finish("err", out \o <<Ev("enum_fail", 0)>>)
                              /\ UNCHANGED entries
                         ELSE LET found == gather_worktrees(d.wt, workdir)
                              IN /\ entries' = found
                                 /\ IF found = <<>>
                                    THEN Finish("ok", out \o
                                                <<Ev("none_left", 0)>>)
                                    ELSE /\ pc' = "list"
                                         /\ io' = out
                                         /\ result' = result

\* The answer to the delete confirmation, the deletion and the refresh.
ListConfirm ==
    /\ pc = "confirm_delete"
    /\ UNCHANGED <<workdir, pushed, provVars>>
    /\ UNCHANGED <<wt_names, fault, to_remove, skipped, idx, removed,
                   selected, dirty>>
    /\ \E answer \in {"yes", "no", "cancel", "error"} :
         IF answer = "error"
         THEN /\ Finish("err", io)
              /\ UNCHANGED <<wt, entries>>
         ELSE LET w == selected.name
                  run == answer = "yes"
              IN \E rmOk \in IF run THEN RemoveOutcomes(wt[w]) ELSE {FALSE},
                    pruneOk \in IF run THEN PruneOutcomes(wt[w]) ELSE {FALSE},
                    after \in IF run THEN RemoveFailed(wt[w]) ELSE {wt[w]},
                    enumOk \in BOOLEAN :
                   LET d == IF run
                            THEN ListDeleteOne(wt, w, rmOk, pruneOk, after)
                            ELSE [wt |-> wt, io |-> <<Ev("answer_no", w)>>]
                       out == io \o d.io
                   IN /\ wt' = d.wt
                      /\ IF ~enumOk
                         THEN /\ Finish("err", out \o <<Ev("enum_fail", 0)>>)
                              /\ UNCHANGED entries
                         ELSE LET found == gather_worktrees(d.wt, workdir)
                              IN /\ entries' = found
                                 /\ IF found = <<>>
                                    THEN Finish("ok", out \o
                                                <<Ev("none_left", 0)>>)
                                    ELSE /\ pc' = "list"
                                         /\ io' = out
                                         /\ result' = result

\* The process ended; the next run of gp starts from the same repository.
Restart ==
    /\ pc = "done"
    /\ pc' = "idle"
    /\ wt_names' = <<>>
    /\ fault' = NoFault
    /\ to_remove' = <<>>
    /\ skipped' = <<>>
    /\ idx' = 0
    /\ removed' = 0
    /\ entries' = <<>>
    /\ selected' = NoEntry
    /\ dirty' = FALSE
    /\ io' = <<>>
    /\ result' = "none"
    /\ req' = NoReq
    /\ UNCHANGED <<wt, workdir, pushed, origin, primary_dirty, branches, head,
                   config, added, clock, runs, freq>>

\* ------------------------------------------------------- the operator
\* Between two runs the operator pushes the commits of a worktree that the
\* report listed as ahead of its upstream: the next graph_ahead_behind
\* answers zero.  Nothing else about the worktree changes.
Push ==
    /\ pc = "done"
    /\ \E w \in Linked :
         /\ \E i \in 1..Len(skipped) : skipped[i] = <<w, "ahead-of-upstream">>
         /\ wt[w].ahead > 0
         /\ wt' = [wt EXCEPT ![w].ahead = 0]
         /\ pushed' = w
    /\ UNCHANGED <<wt_names, fault, to_remove, skipped, idx, removed, entries,
                   selected, dirty, workdir>>
    /\ UNCHANGED <<provVars, pc, io, result>>

\* ------------------------------------------------------- gp (create)
\* A second of wall-clock time passes between two runs.
Tick ==
    /\ pc = "idle"
    /\ UNCHANGED wtVars
    /\ clock < MaxTime
    /\ clock' = clock + 1
    /\ UNCHANGED <<origin, primary_dirty, branches, head, config, added,
                   runs, freq, req, pc, io, result>>

\* main up to the branch prompt: list_remote_branches fails without the
\* remote "origin".
StartCreate ==
    /\ pc = "idle"
    /\ UNCHANGED wtVars
    /\ runs < MaxRuns
    /\ runs' = runs + 1
    /\ UNCHANGED <<origin, primary_dirty, branches, head, config, added,
                   clock, freq, req>>
    /\ IF ~origin
       THEN Finish("err", <<Ev("no_origin", 0)>>)
       ELSE /\ pc' = "create_select"
            /\ io' = <<Ev("ask_branch", MaxRemote)>>
            /\ result' = result

\* The branch prompt: an item, Esc / Ctrl-C, or a prompt error.
CreateSelect ==
    /\ pc = "create_select"
    /\ UNCHANGED wtVars
    /\ UNCHANGED <<origin, primary_dirty, branches, head, config, added,
                   clock, runs, freq>>
    /\ \/ \E rb \in RemoteBranches :
            /\ req' = [NoReq EXCEPT !.rb = rb]
            /\ pc' = "create_action"
            /\ io' = io
            /\ result' = result
       \/ /\ Finish("ok", io \o <<Ev("cancelled", 0)>>)
          /\ UNCHANGED req
       \/ /\ Finish("err", io)
          /\ UNCHANGED req

\* read_action and the arm of `match action` it leads to.
CreateAction ==
    /\ pc = "create_action"
    /\ UNCHANGED wtVars
    /\ UNCHANGED <<origin, primary_dirty, clock, runs>>
    /\ \/ \* read_action fails
          /\ Finish("err", io)
          /\ UNCHANGED <<branches, head, config, added, freq, req>>
       \/ \* Action::Cancel
          /\ Finish("ok", io \o <<Ev("cancelled", 0)>>)
          /\ UNCHANGED <<branches, head, config, added, freq, req>>
       \/ \* Action::CreateBranch or CreateWorktree, freq.save fails: the file
          \* is as it was or no longer parses
          \E lost \in BOOLEAN :
            /\ freq' = IF lost THEN NoCounts ELSE freq
            /\ Finish("err", io \o <<Ev("save_fail", req.rb)>>)
            /\ UNCHANGED <<branches, head, config, added, req>>
       \/ \* Action::CreateBranch
          \E fail \in 0..Len(CheckoutSteps) :
            LET name == NewName(req.rb, clock)
                r == create_and_checkout(Git, primary_dirty, req.rb, name, fail)
            IN /\ freq' = increment(freq, req.rb)
               /\ req' = [op |-> "checkout", rb |-> req.rb, name |-> name]
               /\ branches' = r.git.branches
               /\ head' = r.git.head
               /\ config' = r.git.config
               /\ added' = r.git.added
               /\ Finish(IF r.ok THEN "ok" ELSE "err",
                         io \o <<Ev("freq_saved", req.rb)>>
                            \o StepEvents(r.log, req.rb))
       \/ \* Action::CreateWorktree, then the prompt to change directory
          \E fail \in 0..Len(WorktreeSteps),
             shell \in {"no", "ok", "err", "ask_err"} :
            LET name == NewName(req.rb, clock)
                r == create_worktree(Git, req.rb, name, fail)
            IN /\ freq' = increment(freq, req.rb)
               /\ req' = [op |-> "worktree", rb |-> req.rb, name |-> name]
               /\ branches' = r.git.branches
               /\ head' = r.git.head
               /\ config' = r.git.config
               /\ added' = r.git.added
               /\ r.ok \/ shell = "no"
               /\ Finish(IF r.ok /\ shell \in {"no", "ok"} THEN "ok" ELSE "err",
                         io \o <<Ev("freq_saved", req.rb)>>
                            \o StepEvents(r.log, req.rb) \o
                         (IF r.ok /\ shell \in {"ok", "err"}
                          THEN <<Ev("spawn_shell", req.rb)>> ELSE <<>>))


\* gp w and gp clean, run after run, on a repository that has a working
\* directory and whose branches stay as they are.
Next ==
    \/ StartClean
    \/ CleanConfirm
    \/ CleanDelete
    \/ CleanFinish
    \/ StartList
    \/ ListSelect
    \/ ListAction
    \/ ListConfirm
    \/ Restart

Spec == Init /\ [][Next]_vars

\* gp clean, run after run, with pushes between the runs.
EvalNext ==
    \/ StartClean
    \/ CleanConfirm
    \/ CleanDelete
    \/ CleanFinish
    \/ Push
    \/ Restart

EvalSpec == Init /\ [][EvalNext]_vars

\* gp w, run after run, on a repository with or without a working
\* directory of its own.
ListInit ==
    /\ wt \in [WtNames -> WtStates \cup {Absent}]
    /\ workdir \in BOOLEAN
    /\ ProvIdle
    /\ origin = TRUE
    /\ primary_dirty = FALSE
    /\ pc = "idle"
    /\ WtIdle
    /\ io = <<>>
    /\ result = "none"

ListNext ==
    \/ StartList
    \/ ListSelect
    \/ ListAction
    \/ ListConfirm
    \/ Restart

ListSpec == ListInit /\ [][ListNext]_vars

\* The create journey (gp without a subcommand), run after run, on a
\* repository without linked worktrees at the start.
ProvInit ==
    /\ wt = [w \in WtNames |-> Absent]
    /\ workdir = TRUE
    /\ WtIdle
    /\ ProvIdle
    /\ origin \in BOOLEAN
    /\ primary_dirty \in BOOLEAN
    /\ pc = "idle"
    /\ io = <<>>
    /\ result = "none"

ProvNext ==
    \/ Tick
    \/ StartCreate
    \/ CreateSelect
    \/ CreateAction
    \/ Restart

ProvSpec == ProvInit /\ [][ProvNext]_vars

\* ================================================================ claims
Range(seq) == {seq[i] : i \in 1..Len(seq)}

\* The scan ran and the deletion loop has not started: wt is still the
\* state the scan evaluated.
Scanned == wt_names # <<>> /\ idx = 0

InToRemove(w) == w \in Range(to_remove)

SkippedFor(w, reason) == <<w, reason>> \in Range(skipped)

IsSkipped(w) == \E e \in Range(skipped) : e[1] = w

\* (a) status empty, (b) HEAD on a named branch, (c) upstream configured,
\* (d) zero commits ahead of it.
FourConditions(s) ==
    /\ s.present
    /\ s.access = "ok"
    /\ ~s.dirty
    /\ s.head = "branch"
    /\ s.upstream
    /\ s.ahead = 0

DeletionEvents == {"rmdir_ok", "rmdir_fail", "prune_ok", "prune_fail", "deleted"}

\* ---- C1
\* C1 as stated: after the scan a worktree is in to_remove iff the four
\* conditions hold: (a) the status was computed and is empty, (b) HEAD is
\* on a named branch, (c) the branch has an upstream, (d) it is zero
\* commits ahead of it.
C1_EligibleIffFourConditions ==
    Scanned => \A w \in Linked :
        InToRemove(w) <=> (FourConditions(wt[w]) /\ fault[w] # "status")

\* C1 amended: a worktree is in to_remove iff the four conditions hold and
\* no backend call of its evaluation failed (status, HEAD target, local
\* branch lookup, upstream tip, ahead/behind comparison).
C1_EligibleIffConditionsAndAnswers ==
    Scanned => \A w \in Linked :
        InToRemove(w) <=> (FourConditions(wt[w]) /\ fault[w] = "none")

C1_Witness ==
    /\ Scanned
    /\ \E w \in Linked : InToRemove(w) /\ FourConditions(wt[w])
    /\ \E w \in Linked :
         FourConditions(wt[w]) /\ SkippedFor(w, "upstream-unresolvable")

\* ---- C2
\* C2: in both deletion paths a prune is attempted only right after the
\* successful removal of the same worktree's directory; a worktree whose
\* removal failed is reported, has no prune attempt, and keeps its
\* metadata entry.
C2_RemoveBeforePrune ==
    /\ \A i \in 1..Len(io) :
         io[i].ev \in {"prune_ok", "prune_fail"} =>
            i > 1 /\ io[i - 1] = Ev("rmdir_ok", io[i].n)
    /\ \A i \in 1..Len(io) :
         io[i].ev = "rmdir_fail" =>
            /\ wt[io[i].n].present
            /\ wt[io[i].n].access # "noload"
            /\ \A j \in 1..Len(io) :
                 io[j].ev \in {"prune_ok", "prune_fail", "deleted"}
                    => io[j].n # io[i].n

C2_Witness ==
    /\ pc = "clean_delete"
    /\ \E w \in WtNames, v \in WtNames :
         /\ Ev("rmdir_fail", w) \in Range(io)
         /\ Ev("prune_ok", v) \in Range(io)
         /\ wt[w].present
         /\ ~wt[v].present

\* ---- C3
\* C3: bulk clean touches only the worktrees of to_remove; a skipped
\* worktree has no removal and no prune, and is still there, also after
\* the operator confirmed the batch.
C3_SkippedNeverDeleted ==
    /\ \A i \in 1..Len(io) :
         (wt_names # <<>> /\ io[i].ev \in DeletionEvents) => InToRemove(io[i].n)
    /\ \A w \in WtNames :
         IsSkipped(w) =>
            /\ ~InToRemove(w)
            /\ wt[w].present
            /\ \A i \in 1..Len(io) :
                 io[i].ev \in DeletionEvents => io[i].n # w

C3_Witness ==
    /\ pc = "done"
    /\ Ev("answer_yes", 0) \in Range(io)
    /\ \E w \in WtNames, v \in WtNames :
         /\ SkippedFor(w, "dirty-working-tree")
         /\ wt[w].present /\ wt[w].dirty
         /\ Ev("deleted", v) \in Range(io)

\* ---- C4
\* A backend error or ambiguous answer met for worktree w.
ErrorMet(w) ==
    \/ wt[w].access # "ok"
    \/ wt[w].head = "none"
    \/ ~wt[w].upstream
    \/ fault[w] # "none"

\* C4: a worktree whose evaluation met a backend error (not loadable, not
\* openable, HEAD unreadable or unresolvable, local branch not found,
\* upstream missing or unresolvable, comparison failed, status failed) is
\* in skipped and not in to_remove.
C4_ErrorsAreIneligible ==
    Scanned => \A w \in Linked :
        ErrorMet(w) => IsSkipped(w) /\ ~InToRemove(w)

C4_Witness ==
    /\ Scanned
    /\ \E w \in Linked, v \in Linked :
         /\ FourConditions(wt[w]) /\ fault[w] = "graph"
         /\ SkippedFor(w, "graph-comparison-failure")
         /\ InToRemove(v)

\* ---- C5
\* C5: when the status call fails, worktree_is_dirty answers true: the
\* scan skips the worktree as dirty-working-tree, and the interactive
\* delete asks with the warning text.
C5_StatusErrorIsDirty ==
    /\ Scanned => \A w \in Linked :
         fault[w] = "status" =>
            SkippedFor(w, "dirty-working-tree") /\ ~InToRemove(w)
    /\ (pc = "confirm_delete" /\ fault[selected.name] = "status") =>
         /\ dirty
         /\ io[Len(io)] = Ev("ask_delete_warn", selected.name)

C5_Witness ==
    /\ pc = "confirm_delete"
    /\ fault[selected.name] = "status"
    /\ ~wt[selected.name].dirty
    /\ dirty

\* ---- C6
\* The checks the claim lists, in its order, on state s with failing
\* call f: 1 open, 2 status, 3 HEAD read, 4 HEAD on a branch, 5 upstream,
\* 6 upstream tip, 7 comparison and ahead count.
CheckFails(k, s, f) ==
    CASE k = 1 -> s.access \in {"noopen", "nodir"}
      [] k = 2 -> s.dirty \/ f = "status"
      [] k = 3 -> s.head = "none"
      [] k = 4 -> s.head = "detached"
      [] k = 5 -> ~s.upstream
      [] k = 6 -> f = "uptarget"
      [] k = 7 -> f = "graph" \/ s.ahead > 0

CheckReason(k, f) ==
    CASE k = 1 -> "open-failure"
      [] k = 2 -> "dirty-working-tree"
      [] k = 3 -> "no-head"
      [] k = 4 -> "detached-head"
      [] k = 5 -> "no-upstream"
      [] k = 6 -> "upstream-unresolvable"
      [] k = 7 -> IF f = "graph" THEN "graph-comparison-failure"
                  ELSE "ahead-of-upstream"

ListedChecks == 1..7

FirstFailing(s, f) ==
    CHOOSE k \in ListedChecks :
        CheckFails(k, s, f) /\ \A j \in 1..(k - 1) : ~CheckFails(j, s, f)

C7_DirtyAlwaysDirtyReason ==
    Scanned => \A w \in Linked :
        wt[w].dirty => SkippedFor(w, "dirty-working-tree") /\ ~InToRemove(w)

C7_Witness ==
    /\ Scanned
    /\ \E w \in Linked, v \in Linked :
         /\ wt[w].dirty /\ wt[w].head = "detached"
         /\ SkippedFor(w, "dirty-working-tree")
         /\ wt[v].dirty /\ wt[v].upstream /\ wt[v].ahead = 0
         /\ SkippedFor(v, "dirty-working-tree")

\* ---- C8
\* C8 as stated: every worktree whose HEAD is detached is skipped as
\* detached-head.
C8_DetachedAlwaysDetachedReason ==
    Scanned => \A w \in Linked :
        wt[w].head = "detached" => SkippedFor(w, "detached-head")

\* C8 amended: a worktree whose HEAD is detached and whose status was
\* computed and is empty is skipped as detached-head.
C8_CleanDetachedIsDetachedReason ==
    Scanned => \A w \in Linked :
        (wt[w].head = "detached" /\ ~wt[w].dirty /\ fault[w] # "status")
           => SkippedFor(w, "detached-head") /\ ~InToRemove(w)

C8_Witness ==
    /\ Scanned
    /\ \E w \in Linked, v \in Linked :
         /\ wt[w].head = "detached" /\ ~wt[w].dirty
         /\ SkippedFor(w, "detached-head")
         /\ wt[v].head = "detached" /\ wt[v].dirty
         /\ SkippedFor(v, "dirty-working-tree")


\* ---- C9
EventsAt(e) == {i \in 1..Len(io) : io[i].ev = e}

FirstAt(e) == CHOOSE i \in EventsAt(e) : \A j \in EventsAt(e) : i <= j

C9_State ==
    wt_names # <<>> =>
       /\ Cardinality(EventsAt("ask_confirm")) <= 1
       /\ Cardinality(EventsAt("answer_yes")) <= 1
       /\ \A i \in 1..Len(io) :
            io[i].ev \in DeletionEvents =>
               /\ EventsAt("answer_yes") # {}
               /\ FirstAt("answer_yes") < i
       /\ \A i \in EventsAt("answer_yes") \cup EventsAt("answer_no") :
            /\ EventsAt("ask_confirm") # {}
            /\ FirstAt("ask_confirm") < i
       /\ \A i \in EventsAt("ask_confirm") :
            /\ io[i].n = Len(to_remove)
            /\ i > 1 /\ io[i - 1] = Ev("show_eligible", Len(to_remove))
            /\ skipped # <<>> =>
                 /\ EventsAt("show_skipped") # {}
                 /\ FirstAt("show_skipped") < i
       /\ EventsAt("answer_no") # {} =>
            \A i \in 1..Len(io) : io[i].ev \notin DeletionEvents

C9_Step ==
    (pc \in {"idle", "clean_confirm"} /\ pc' \in {"clean_confirm", "clean_delete", "done"}
       /\ wt_names' # <<>>)
      => wt' = wt

\* C9: in bulk clean nothing is removed or pruned before the operator has
\* answered yes to the batch confirmation, which is asked at most once,
\* for the whole of to_remove, after the skipped and the eligible
\* partitions were shown; the scan and a declined or cancelled prompt
\* leave every worktree as it was.
C9_NothingBeforeConfirmation == [](C9_State) /\ [][C9_Step]_vars

C9_Witness ==
    /\ pc = "done"
    /\ Len(to_remove) = 2
    /\ skipped = <<>>
    /\ EventsAt("ask_confirm") # {}
    /\ EventsAt("answer_no") # {}
    /\ \A w \in Range(to_remove) : FourConditions(wt[w])

\* ---- C10
RECURSIVE Attempts(_)
Attempts(log) ==
    IF log = <<>> THEN <<>>
    ELSE IF Head(log).ev \in {"rmdir_ok", "rmdir_fail"}
         THEN <<Head(log).n>> \o Attempts(Tail(log))
         ELSE Attempts(Tail(log))

\* C10: after the confirmation the removals attempted so far are the
\* elements of to_remove before the loop position, once each and in
\* order, whatever failed; when the journey has ended they are all of
\* to_remove, and the count reported is the number of directories removed.
C10_EveryEligibleAttemptedOnce ==
    (wt_names # <<>> /\ EventsAt("answer_yes") # {}) =>
       /\ Attempts(io) = SubSeq(to_remove, 1, idx - 1)
       /\ removed = Cardinality(EventsAt("rmdir_ok"))
       /\ pc = "done" =>
            /\ Attempts(io) = to_remove
            /\ io[Len(io)] = Ev("count", Cardinality(EventsAt("rmdir_ok")))

C10_Witness ==
    /\ pc = "done"
    /\ Len(to_remove) = 2
    /\ Ev("rmdir_fail", to_remove[1]) \in Range(io)
    /\ Ev("prune_fail", to_remove[2]) \in Range(io)
    /\ io[Len(io)] = Ev("count", 1)

\* ---- C11
\* The journey on display is the bulk clean (its scan has run).
InClean == wt_names # <<>>

\* The last thing the journey did was to fail at enumerating the worktrees.
EndedOnEnumFailure ==
    /\ pc = "done"
    /\ result = "err"
    /\ io # <<>>
    /\ io[Len(io)] = Ev("enum_fail", 0)

\* C11: a prune that fails follows a directory removal that succeeded and
\* is only a warning: the worktree is still reported as deleted.  In the
\* interactive journey the controller is then back at the list with an
\* inventory that equals a fresh query, the journey has returned nothing,
\* unless the refresh itself could not enumerate; in the bulk clean the
\* loop goes on, every record of to_remove is attempted by the end and the
\* journey never returns an error.
C11_PruneFailureIsWarning ==
    \A k \in EventsAt("prune_fail") :
       LET w == io[k].n
       IN /\ k > 1 /\ io[k - 1] = Ev("rmdir_ok", w)
          /\ k < Len(io) /\ io[k + 1] = Ev("deleted", w)
          /\ IF InClean
             THEN /\ pc \in {"clean_delete", "done"}
                  /\ result # "err"
                  /\ Attempts(io) = SubSeq(to_remove, 1, idx - 1)
                  /\ pc = "done" => Attempts(io) = to_remove
             ELSE \/ /\ pc = "list"
                     /\ result = "none"
                     /\ entries = gather_worktrees(wt, workdir)
                  \/ EndedOnEnumFailure

\* The interactive journey is back at the list after a failed prune, the
\* worktree whose directory is gone is still on display.
C11_Witness ==
    /\ ~InClean
    /\ pc = "list"
    /\ EventsAt("prune_fail") # {}
    /\ \E i \in 1..Len(entries) :
         /\ entries[i].name = selected.name
         /\ entries[i].branch = "(unknown)"
         /\ wt[selected.name].access = "nodir"

\* ---- C12
\* C12: the primary worktree is never deleted.  In the interactive journey
\* the delete key is not among the keys accepted on the primary entry and
\* the delete confirmation is never reached with it selected; in the bulk
\* clean it is not among the names scanned, partitioned or removed; no
\* removal or prune, attempted or done, ever names it.
C12_PrimaryNeverDeleted ==
    /\ (pc = "action" /\ selected.is_main) =>
          "Delete" \notin WtActions(selected.is_main)
    /\ pc = "confirm_delete" => (~selected.is_main /\ selected.name # MainWt)
    /\ \A i \in 1..Len(entries) :
          entries[i].is_main <=> entries[i].name = MainWt
    /\ MainWt \notin Range(wt_names) \cup Range(to_remove)
    /\ \A e \in Range(skipped) : e[1] # MainWt
    /\ \A i \in 1..Len(io) :
          io[i].ev \in DeletionEvents \cup {"ask_delete", "ask_delete_warn"}
             => io[i].n # MainWt

\* The operator picked the primary entry while linked worktrees exist and
\* the journey went on to open a shell in it.
C12_Witness ==
    /\ pc = "done"
    /\ selected.is_main
    /\ Len(entries) > 1
    /\ Ev("spawn_shell", MainWt) \in Range(io)

\* ---- C18
\* entries holds the result of a successful gather_worktrees.
Listed == pc \in {"list", "action", "confirm_delete"}

\* The primary entry first and only there, the linked ones after it in the
\* order of the enumeration.
PrimaryFirst(es) ==
    /\ es # <<>>
    /\ es[1].is_main
    /\ \A i \in 2..Len(es) : ~es[i].is_main
    /\ \A i, j \in 2..Len(es) : i < j => es[i].name < es[j].name

\* C18 as stated: every successful inventory has the primary worktree
\* first, exactly one primary record, and the linked worktrees after it in
\* enumeration order.
C18_PrimaryFirstAlways == Listed => PrimaryFirst(entries)

\* C18 amended: the same for a repository that has a working directory;
\* without one the inventory holds linked worktrees only, in enumeration
\* order.
C18_PrimaryFirstWhenWorkdir ==
    Listed =>
       IF workdir THEN PrimaryFirst(entries)
       ELSE /\ \A i \in 1..Len(entries) : ~entries[i].is_main
            /\ \A i, j \in 1..Len(entries) :
                  i < j => entries[i].name < entries[j].name

C18_Witness ==
    /\ Listed
    /\ workdir
    /\ Len(entries) = MaxWt + 1
    /\ entries[1].is_main

\* ---- C19
\* C19 as stated: every linked worktree the backend enumerates has a
\* record in the inventory, whichever of its calls failed; the branch is
\* the "(unknown)" sentinel when the worktree cannot be opened.
C19_NoEntryDropped ==
    Listed =>
       \A w \in Linked :
          \E i \in 1..Len(entries) :
             /\ entries[i].name = w
             /\ ~entries[i].is_main
             /\ wt[w].access # "ok" => entries[i].branch = "(unknown)"

\* ---- C20
\* C20: when the worktrees cannot be enumerated the journey ends there and
\* returns the error: nothing is printed, asked or done after the failure.
\* In the bulk clean nothing was scanned or removed; in the interactive
\* journey the failure is that of the first query, of the refresh after a
\* delete confirmation or of the refresh after Back.
C20_EnumFailureEndsJourney ==
    \A k \in EventsAt("enum_fail") :
       /\ k = Len(io)
       /\ pc = "done"
       /\ result = "err"
       /\ wt_names = <<>> /\ to_remove = <<>> /\ skipped = <<>>
       /\ \/ k = 1 /\ entries = <<>>
          \/ k > 1 /\ io[1] = Ev("selected", selected.name) /\ entries # <<>>

\* The refresh after a deletion failed: the worktree is gone, the journey
\* ended with the error.
C20_Witness ==
    /\ EndedOnEnumFailure
    /\ Ev("deleted", selected.name) \in Range(io)
    /\ ~wt[selected.name].present

\* ================================================= claims on provisioning
StepNames == Range(CheckoutSteps) \cup Range(WorktreeSteps)

\* The number of backend calls of the provisioning that returned Ok.
Completed == Cardinality({i \in 1..Len(io) : io[i].ev \in StepNames})

\* The steps of the provisioning that was requested.
ReqSteps == IF req.op = "checkout" THEN CheckoutSteps ELSE WorktreeSteps

\* The provisioning ran and returned Err from the call named x.
FailedAt(x) ==
    /\ pc = "done"
    /\ req.op # "none"
    /\ Completed = Pos(ReqSteps, x) - 1

\* The provisioning ran and returned Ok: its last call did.
ProvOk ==
    /\ pc = "done"
    /\ req.op # "none"
    /\ Completed = Len(ReqSteps)

\* ---- C13
\* C13: after a provisioning that succeeded, in place or as a worktree,
\* branch.<new>.remote is "origin" and branch.<new>.merge names the remote
\* branch that was picked.
C13_TrackingAfterSuccess ==
    ProvOk => config[req.name] = [remote |-> TRUE, merge |-> req.rb]

\* A worktree was provisioned after an in-place checkout had succeeded.
C13_Witness ==
    /\ ProvOk
    /\ req.op = "worktree"
    /\ head # Initial
    /\ config[head] = [remote |-> TRUE, merge |-> head[1]]

\* ---- C14
\* C14: after a create_and_checkout that succeeded the new local branch
\* exists at the commit origin/<remote_branch> resolved to and the primary
\* HEAD is on that branch, hence at that commit.
C14_BranchAtRemoteTipAndHead ==
    (ProvOk /\ req.op = "checkout") =>
       /\ branches[req.name] = RemoteTip(req.rb)
       /\ head = req.name
       /\ branches[head] = RemoteTip(req.rb)

C14_Witness ==
    /\ ProvOk
    /\ req.op = "checkout"
    /\ req.rb = MaxRemote
    /\ result = "ok"

\* ---- C15
\* C15 as stated: a provisioning that fails on a precondition (the remote
\* "origin" is missing, the new branch name exists already, uncommitted
\* changes block the checkout) returns an error and leaves the local
\* branches, the primary HEAD, the tracking configuration and the set of
\* worktrees as they were before it started.
C15_Step ==
    LET untouched == /\ result' = "err"
                     /\ UNCHANGED <<branches, head, config, added>>
    IN /\ (pc = "idle" /\ pc' = "done" /\ ~origin) => untouched
       /\ (pc = "create_action" /\ FailedAt("branch")'
             /\ branches[req'.name] # NoCommit) => untouched
       /\ (pc = "create_action" /\ req'.op = "checkout"
             /\ FailedAt("checkout")' /\ primary_dirty) => untouched

C15_PreconditionFailureLeavesStateUntouched == [][C15_Step]_vars

\* ---- C16
\* C16: when create_worktree fails at the materialization of the worktree,
\* after the branch was created, it returns an error, the new branch is
\* there at the remote tip, no worktree was added and no tracking was
\* written for the branch.
C16_BranchLeftAfterWorktreeFailure ==
    (req.op = "worktree" /\ FailedAt("worktree")) =>
       /\ result = "err"
       /\ branches[req.name] = RemoteTip(req.rb)
       /\ req.name \notin added
       /\ config[req.name] = NoTracking

C16_Witness ==
    /\ req.op = "worktree"
    /\ FailedAt("worktree")
    /\ branches[req.name] # NoCommit
    /\ Ev("find_branch", req.rb) \in Range(io)

\* ---- C17
\* What create_worktree has done is a prefix of: resolve the remote ref,
\* create the branch, materialize the worktree, set the tracking; what it
\* has left in the repository is what the calls of that prefix write.
C17_State ==
    (pc = "done" /\ req.op = "worktree") =>
       LET done == SelectSeq(io, LAMBDA e : e.ev \in StepNames)
           n == req.name
           past(x) == Completed >= Pos(WorktreeSteps, x)
       IN /\ done = StepEvents(SubSeq(WorktreeSteps, 1, Len(done)), req.rb)
          /\ past("branch") =>
                /\ branches[n] = RemoteTip(req.rb)
                /\ n \in added <=> past("worktree")
                /\ config[n].remote <=> past("set_remote")
                /\ config[n].merge = (IF past("set_merge") THEN req.rb ELSE 0)

\* The step that runs create_worktree leaves the primary HEAD where it
\* was, whatever the outcome.
C17_Step ==
    (pc = "create_action" /\ req'.op = "worktree") => head' = head

\* C17: create_worktree resolves the remote ref, creates the branch,
\* materializes the worktree and sets the tracking, in that order, and in
\* every outcome the primary HEAD is unchanged.
C17_WorktreeStepsInOrderHeadUnchanged == [](C17_State) /\ [][C17_Step]_vars

\* A worktree was provisioned while the primary HEAD was on a branch that
\* an earlier checkout had created: it is still there.
C17_Witness ==
    /\ ProvOk
    /\ req.op = "worktree"
    /\ req.name \in added
    /\ head \notin {Initial, req.name}

\* ---- C21
\* C21: a second inventory query with no change of the worktrees in
\* between returns the same records in the same order: when the controller
\* comes back to the list after Back, or after a delete that was declined,
\* what it shows is what it showed before.
C21_Step ==
    (Listed /\ pc' = "list" /\ wt' = wt) => entries' = entries

FirstEvent(log, e) ==
    IF \E i \in 1..Len(log) : log[i].ev = e
    THEN CHOOSE i \in 1..Len(log) :
             /\ log[i].ev = e
             /\ \A j \in 1..(i - 1) : log[j].ev # e
    ELSE 0

\* The step that answers the action prompt of the create journey.
C30_Step ==
    (pc = "create_action" /\ pc' = "done") =>
        /\ req'.op # "none" =>
              /\ freq' = [freq EXCEPT ![req.rb] = @ + 1]
              /\ FirstEvent(io', "freq_saved") > 0
              /\ \A i \in 1..Len(io') :
                    io'[i].ev \in StepNames => i > FirstEvent(io', "freq_saved")
        /\ req'.op = "none" =>
              /\ Completed' = 0
              /\ branches' = branches
        /\ (io' # <<>> /\ io'[Len(io')] = Ev("cancelled", 0)) => freq' = freq

\* C30: CreateBranch and CreateWorktree add exactly one to the counter of
\* the chosen remote branch and save it before the first provisioning call,
\* the count stays when the provisioning fails and across runs, and Cancel
\* leaves every counter as it was.
C30_CounterSavedBeforeProvisioning ==
    [][C30_Step /\ (pc = "done" => freq' = freq)]_vars

\* A second pick of the same remote branch whose provisioning failed: the
\* count is two.
C30_Witness ==
    /\ pc = "done"
    /\ req.op = "worktree"
    /\ FailedAt("branch")
    /\ freq[req.rb] = MaxRuns
    /\ io[2] = Ev("freq_saved", req.rb)

\* ---- C22
\* C22: the verdict of gp clean is computed from what the backend answers
\* during that scan.  A worktree that is clean, on a branch with an
\* upstream and ahead of it is skipped as ahead-of-upstream; once its
\* commits were pushed, the next scan whose calls all answer puts it in
\* to_remove, whatever the earlier scan reported.
C22_Step ==
    (pc = "idle" /\ wt_names' # <<>>) => \A w \in Linked :
        /\ ( /\ FourConditions([wt[w] EXCEPT !.ahead = 0])
             /\ wt[w].ahead > 0
             /\ fault'[w] = "none" ) =>
                 <<w, "ahead-of-upstream">> \in Range(skipped')
        /\ ( /\ w = pushed
             /\ wt[w].access = "ok"
             /\ ~wt[w].dirty
             /\ fault'[w] = "none" ) => w \in Range(to_remove')

C22_VerdictFollowsBackendState == [][C22_Step]_vars

\* A scan after the push: the worktree that an earlier run skipped is now
\* in to_remove, next to one that is still ahead.
C22_Witness ==
    /\ Scanned
    /\ pushed # NoPush
    /\ InToRemove(pushed)
    /\ \E w \in Linked : SkippedFor(w, "ahead-of-upstream")

\* ---- C23
\* The states of the interactive controller.
Listing == pc = "list"

ItemSelected == pc = "action"

ConfirmingDelete == pc = "confirm_delete"

\* The last event of the journey's log is named e.
LastEvent(log, e) == log # <<>> /\ log[Len(log)].ev = e

\* C23 as stated, backend and terminal errors set aside: from Listing the
\* controller goes to ItemSelected only; from ItemSelected it ends (Entering,
\* Cancelled), asks for the confirmation or goes back to Listing; from
\* ConfirmingDelete it goes back to Listing.
C23_OnlyStatedTransitions ==
    [][ /\ (Listing /\ result' # "err") => ItemSelected'
        /\ (ItemSelected /\ result' # "err") =>
              pc' \in {"done", "confirm_delete", "list"}
        /\ (ConfirmingDelete /\ result' # "err") => Listing' ]_vars

C23_Step ==
    /\ Listing =>
          \/ ItemSelected' /\ selected' \in Range(entries)
          \/ pc' = "done" /\ io' = <<>>
    /\ ItemSelected =>
          \/ pc' = "done" /\ entries' = entries /\ wt' = wt
          \/ ConfirmingDelete' /\ ~selected.is_main
          \/ Listing' /\ io' = io /\ wt' = wt
    /\ ConfirmingDelete =>
          \/ Listing' /\ entries' # <<>>
          \/ pc' = "done" /\ LastEvent(io', "none_left") /\ entries' = <<>>
          \/ pc' = "done" /\ result' = "err"
    /\ LastEvent(io', "spawn_shell") => pc' = "done"
    /\ pc = "done" => pc' = "idle"

\* C23 amended: the transitions of the statement, and besides them the exit
\* from Listing when the selection prompt is cancelled, the exit from
\* ConfirmingDelete when the refreshed inventory is empty, and the exit
\* with an error from every state.  After the shell was spawned the
\* controller ends, and an ended controller only starts anew.
C23_ControllerTransitions == [][C23_Step]_vars

\* The last linked worktree of a repository without a working directory
\* was deleted: the controller ended from ConfirmingDelete.
C23_Witness ==
    /\ pc = "done"
    /\ result = "ok"
    /\ ~workdir
    /\ LastEvent(io, "none_left")
    /\ Linked = {}

\* ---- C24
\* C24: whenever the list is shown, and while the operator acts on a record
\* picked from it, the records in memory are what the inventory answers for
\* the present state of the worktrees: every deletion, also one that left
\* the worktree half removed, is followed by a new query before the list
\* is shown again, and the record acted on is one of those records.
C24_ListedRecordsAreFresh ==
    Listed =>
        /\ entries = gather_worktrees(wt, workdir)
        /\ (pc \in {"action", "confirm_delete"} => selected \in Range(entries))

\* The list is shown again after a removal that failed half way: the
\* worktree, openable when it was picked, is now listed as "(unknown)".
C24_Witness ==
    /\ pc = "list"
    /\ LastEvent(io, "rmdir_fail")
    /\ ~dirty
    /\ wt[selected.name].access = "noopen"
    /\ \E i \in 1..Len(entries) :
          entries[i].name = selected.name /\ entries[i].branch = "(unknown)"

\* ---- C25
\* The log holds an event of the deletion of w.
DeletionLogged(log, w) ==
    \E i \in 1..Len(log) : log[i].ev \in DeletionEvents /\ log[i].n = w

C25_Step ==
    /\ (ItemSelected /\ ~selected.is_main) =>
          ENABLED (ListAction /\ pc' = "confirm_delete")
    /\ (ItemSelected /\ ConfirmingDelete') =>
          LET s == wt[selected.name]
              warn == s.access # "ok" \/ s.dirty \/ fault'[selected.name] = "status"
          IN /\ dirty' = warn
             /\ io' = io \o <<Ev(IF warn THEN "ask_delete_warn"
                                 ELSE "ask_delete", selected.name)>>
             /\ wt' = wt
    /\ ConfirmingDelete =>
          /\ wt' # wt => DeletionLogged(io', selected.name)
          /\ DeletionLogged(io', selected.name) =>
                \A i \in 1..Len(io') : io'[i].ev # "answer_no"
          /\ (\E i \in 1..Len(io') : io'[i].ev = "answer_no") => wt' = wt
          /\ io' = io => (wt' = wt /\ result' = "err")
          /\ io' # io =>
                \/ DeletionLogged(io', selected.name)
                \/ \E i \in 1..Len(io') : io'[i] = Ev("answer_no", selected.name)

\* C25: for a linked worktree the Delete key is always answered with the
\* confirmation prompt, with the warning text when the worktree is dirty,
\* does not open or its status cannot be read; the worktrees change only in
\* a step that logs the deletion; an answered prompt logs either the
\* deletion or the refusal, never both, and a refused or failed prompt
\* leaves every worktree as it was.
C25_ConfirmationGate == [][C25_Step]_vars

\* A dirty worktree was deleted after the operator confirmed the warning.
C25_Witness ==
    /\ pc = "list"
    /\ dirty
    /\ io = <<Ev("selected", selected.name),
              Ev("ask_delete_warn", selected.name),
              Ev("rmdir_ok", selected.name),
              Ev("prune_ok", selected.name),
              Ev("deleted", selected.name)>>
    /\ wt[selected.name] = Absent

\* ---- C26
\* The names of the non-primary records list() returns for the present
\* state of the worktrees.
ListedLinked ==
    {e.name : e \in {x \in Range(gather_worktrees(wt, workdir)) : ~x.is_main}}

\* C26: after the scan of gp clean the worktrees in its two partitions are
\* exactly the non-primary records list() returns for the same backend
\* state, each of them in exactly one partition, once.
C26_CleanEvaluatesListedRecords ==
    Scanned =>
        /\ Range(to_remove) \cup {e[1] : e \in Range(skipped)} = ListedLinked
        /\ \A w \in ListedLinked : InToRemove(w) # IsSkipped(w)
        /\ Len(to_remove) + Len(skipped) = Cardinality(ListedLinked)

\* ---- C27
\* C27: no provisioning fails at the creation of its branch because the
\* name <remote_branch>-<timestamp> it was given is the name an earlier
\* request made.
C27_NamesNeverCollide ==
    ~( /\ FailedAt("branch")
       /\ runs > 1
       /\ req.name = NewName(req.rb, clock)
       /\ branches[req.name] # NoCommit )

\* ---- C28
\* C28: the two tracking keys of a local branch, branch.<name>.remote and
\* branch.<name>.merge, are set together or not at all, in every state the
\* create journey can leave.
C28_TrackingNeverHalfApplied ==
    \A n \in LocalNames : config[n].remote <=> (config[n].merge # 0)

\* ---- C29
\* The worktrees whose directory is gone while their metadata entry is
\* still enumerated.
Dangling == {w \in Linked : wt[w].access = "nodir"}

C29_State ==
    /\ \A k \in EventsAt("prune_ok") \cup EventsAt("prune_fail") :
          k > 1 /\ io[k - 1] = Ev("rmdir_ok", io[k].n)
    /\ \A w \in Dangling :
          /\ Scanned => SkippedFor(w, "open-failure")
          /\ Listed => \E i \in 1..Len(entries) :
                          /\ entries[i].name = w
                          /\ entries[i].branch = "(unknown)"
                          /\ ~entries[i].is_main

C29_Step ==
    /\ \A w \in Dangling : wt'[w] = wt[w]
    /\ (ConfirmingDelete /\ selected.name \in Dangling
          /\ DeletionLogged(io', selected.name)) =>
             /\ Ev("rmdir_fail", selected.name) \in Range(io')
             /\ \A i \in 1..Len(io') : io'[i].ev \notin {"prune_ok", "prune_fail"}

\* C29: a prune is logged only right after the successful removal of the
\* same worktree's directory.  A worktree whose directory is gone and whose
\* metadata remains therefore stays as it is through every step of gp w
\* and gp clean: the list shows it with the branch "(unknown)", its
\* interactive deletion fails at the directory and attempts no prune, and
\* the scan of gp clean puts it in skipped.
C29_DanglingEntryNeverPruned == [](C29_State) /\ [][C29_Step]_vars

\* The operator confirmed the deletion of a worktree whose directory was
\* already gone: the removal failed and the list shows the worktree again.
C29_Witness ==
    /\ pc = "list"
    /\ selected.name \in Dangling
    /\ io = <<Ev("selected", selected.name),
              Ev("ask_delete_warn", selected.name),
              Ev("rmdir_fail", selected.name)>>

====
